---------------------------- MODULE Spec2Model ----------------------------
(* Model of internal/glance/widget-bilibili-videos.go (TankNee/glance):     *)
(* the bilibili videos widget, its update and fetchBilibiliChannelUploads.  *)
(* Strings are sequences of one-character strings, so that the regular      *)
(* expression of the item extractor is run on the text of the HTML body.    *)
EXTENDS Integers, Sequences, FiniteSets, Bags, TLC

(***************************************************************************)
(* Bounds of the model                                                     *)
(***************************************************************************)
MaxSources == 2
MaxItems == 2
MaxTime == 2
MaxLimit == 2
MaxTags == 2
MaxPasses == 2
MaxPoolSources == 32

Nil == "nil"

Min(a, b) == IF a < b THEN a ELSE b

(***************************************************************************)
(* Text                                                                    *)
(***************************************************************************)
(* does the text t occur in s at position p *)
HasAt(s, p, t) ==
    /\ p >= 1
    /\ p + Len(t) - 1 <= Len(s)
    /\ \A k \in 1..Len(t) : s[p + k - 1] = t[k]

LtImg == <<"<", "i", "m", "g">>
SrcEqDq == <<"s", "r", "c", "=", "\"">>

(* the HTML of the tags an item body is made of *)
TagHtml(tag) ==
    CASE tag.kind = "dq" ->
           LtImg \o <<" ">> \o SrcEqDq \o tag.src \o <<"\"", ">">>
      [] tag.kind = "sq" ->
           LtImg \o <<" ", "s", "r", "c", "=", "'">> \o tag.src \o <<"'", ">">>
      [] tag.kind = "lazy" ->
           LtImg \o <<" ">> \o SrcEqDq \o tag.src \o <<"\"", " ", "d", "a", "t", "a", "-">>
                 \o SrcEqDq \o <<"z">> \o <<"\"", ">">>
      [] tag.kind = "upper" ->
           <<"<", "I", "M", "G", " ">> \o SrcEqDq \o tag.src \o <<"\"", ">">>
      [] OTHER -> <<"<", "p", ">">> \o tag.src \o <<"<", "/", "p", ">">>

RECURSIVE BodyHtml(_)
BodyHtml(tags) ==
    IF tags = <<>> THEN <<>>
    ELSE TagHtml(Head(tags)) \o BodyHtml(Tail(tags))

(***************************************************************************)
(* regexp.MustCompile(`<img[^>]+src="([^"]+)"`)                            *)
(***************************************************************************)
(* the positions q at which src=" can start for a match that starts at p:  *)
(* <img at p, one or more characters other than > up to q - 1, src=" at q, *)
(* one or more characters other than the quote, then the quote             *)
CloseQuote(s, c) ==
    IF \E r \in c..Len(s) : s[r] = "\""
    THEN CHOOSE r \in c..Len(s) :
             /\ s[r] = "\""
             /\ \A k \in c..(r - 1) : s[k] # "\""
    ELSE 0

SrcStarts(s, p) ==
    IF ~HasAt(s, p, LtImg) THEN {}
    ELSE { q \in (p + 5)..Len(s) :
             /\ \A k \in (p + 4)..(q - 1) : s[k] # ">"
             /\ HasAt(s, q, SrcEqDq)
             /\ CloseQuote(s, q + 5) > q + 5 }

MaxOf(S) == CHOOSE x \in S : \A y \in S : y <= x

(* the match at p: [^>]+ is greedy, so the last possible src=" is taken *)
MatchAt(s, p) ==
    LET q == MaxOf(SrcStarts(s, p))
        r == CloseQuote(s, q + 5)
    IN  [end |-> r, sub |-> SubSeq(s, q + 5, r - 1)]

(* re.FindAllStringSubmatch(v.ContentHTML, -1): the successive leftmost    *)
(* matches, none overlapping the one before; match[1] of each              *)
RECURSIVE FindAllFrom(_, _)
FindAllFrom(s, from) ==
    LET starts == { p \in from..Len(s) : SrcStarts(s, p) # {} }
    IN  IF starts = {} THEN <<>>
        ELSE LET p == CHOOSE x \in starts : \A y \in starts : x <= y
                 m == MatchAt(s, p)
             IN  <<m.sub>> \o FindAllFrom(s, m.end + 1)

FindAllStringSubmatch(s) == FindAllFrom(s, 1)

(***************************************************************************)
(* Inputs                                                                  *)
(***************************************************************************)
UrlU == <<"u">>
UrlV == <<"v">>

(* the tags of the item bodies: an image with a double-quoted src, with a   *)
(* single-quoted src, with a data-src after the src, in upper case, and a  *)
(* paragraph                                                               *)
Tags == [kind : {"dq", "sq", "lazy", "upper", "text"}, src : {UrlU, UrlV}]

TagSeqs == UNION { [1..k -> Tags] : k \in 0..MaxTags }

(* item bodies of the aggregation passes: one image, no image *)
BodyU == BodyHtml(<<[kind |-> "dq", src |-> UrlU]>>)
BodyV == BodyHtml(<<[kind |-> "dq", src |-> UrlV]>>)
BodyText == BodyHtml(<<[kind |-> "text", src |-> UrlU]>>)

(* bilibiliFeedResponseJson.Items[j]: ContentHTML and DatePublished *)
Items ==
    [ContentHTML : {BodyU}, DatePublished : 1..MaxTime]
    \cup {[ContentHTML |-> BodyV, DatePublished |-> MaxTime],
          [ContentHTML |-> BodyText, DatePublished |-> 1]}

SeqsUpTo(S, n) == UNION { [1..k -> S] : k \in 0..n }

ZeroResponse == [Items |-> <<>>]

(* what the network answers for a source: a payload, or an error with the  *)
(* payload as far as it was decoded                                        *)
Answers ==
    { [err |-> Nil, resp |-> [Items |-> p]] : p \in SeqsUpTo(Items, MaxItems) }
    \cup
    { [err |-> "fetch error", resp |-> [Items |-> p]] :
        p \in {<<>>, <<[ContentHTML |-> BodyU, DatePublished |-> MaxTime]>>} }

(* a URL that does not parse is never asked for *)
NoAnswer == [err |-> "fetch error", resp |-> ZeroResponse]

DefaultImageProxy ==
    <<"/", "/", "w", "s", "r", "v", ".", "n", "l", "/", "?", "u", "r", "l", "=">>

NoError == [kind |-> Nil, failed |-> 0, wraps |-> Nil]
NoReturn == [videos |-> <<>>, err |-> NoError]

(* there was no pass before *)
NoPass == [pass |-> 0, feed |-> <<>>, ret |-> NoReturn, Videos |-> <<>>]

VARIABLES
    Limit,        \* widget.Limit
    ImageProxy,   \* widget.ImageProxy
    RSSHubUrls,   \* widget.RSSHubUrls
    Videos,       \* widget.Videos
    feed,         \* the answer of the network for each source
    pc,           \* the position of update
    ctxDone,      \* the ctx of update is cancelled
    requests,     \* fetchBilibiliChannelUploads: requests
    inflight,     \* the tasks a worker of the pool is running
    order,        \* the tasks in the order they completed
    responses,    \* the responses of workerPoolDo
    errs,         \* the errs of workerPoolDo
    i,            \* the index of the loop over responses
    videos,       \* fetchBilibiliChannelUploads: videos
    failed,       \* fetchBilibiliChannelUploads: failed
    log,          \* the records given to slog.Error in this pass
    ret,          \* what fetchBilibiliChannelUploads returned
    poolErr,      \* the err of workerPoolDo
    VideoUrlTemplate,  \* widget.VideoUrlTemplate
    IncludeShorts,     \* widget.IncludeShorts
    last          \* the pass before this one: its sources' answers, its result,
                  \* and widget.Videos as it left them

vars == <<Limit, ImageProxy, RSSHubUrls, Videos, feed, pc, ctxDone, requests,
          inflight, order, responses, errs, i, videos, failed, log, ret,
          poolErr, VideoUrlTemplate, IncludeShorts, last>>

config == <<Limit, ImageProxy, RSSHubUrls, feed, VideoUrlTemplate, IncludeShorts, last>>
pool == <<requests, inflight, order, responses, errs, poolErr>>
loop == <<i, videos, failed, log>>

(***************************************************************************)
(* bilibiliVideosWidget.initialize                                         *)
(***************************************************************************)
initialize ==
    /\ pc = "new"
    /\ Limit' = IF Limit <= 0 THEN 25 ELSE Limit
    /\ ImageProxy' = IF ImageProxy = <<>> THEN DefaultImageProxy ELSE ImageProxy
    /\ pc' = "build"
    /\ UNCHANGED <<RSSHubUrls, Videos, feed, ctxDone, pool, loop, ret,
                   VideoUrlTemplate, IncludeShorts, last>>

(***************************************************************************)
(* fetchBilibiliChannelUploads: the requests                               *)
(***************************************************************************)
(* http.NewRequest("GET", feedUrl, nil): nil when the URL does not parse *)
NewRequest(feedUrl) ==
    IF feedUrl.parses THEN [nil |-> FALSE, src |-> feedUrl.n]
    ELSE [nil |-> TRUE, src |-> 0]

BuildRequestsSkipNil(urls) ==
    SelectSeq([k \in 1..Len(urls) |-> NewRequest(urls[k])], LAMBDA r : ~r.nil)

BuildRequests(urls) == [k \in 1..Len(urls) |-> NewRequest(urls[k])]

MakeRequests ==
    /\ pc = "build"
    /\ requests' = BuildRequests(RSSHubUrls)
    /\ responses' = [k \in 1..Len(requests') |-> ZeroResponse]
    /\ errs' = [k \in 1..Len(requests') |-> Nil]
    /\ pc' = "fetch"
    /\ UNCHANGED <<config, Videos, ctxDone, inflight, order, poolErr, loop, ret>>

(***************************************************************************)
(* workerPoolDo(job) with decodeJsonFromRequestTask                        *)
(***************************************************************************)
Completed == { order[k] : k \in 1..Len(order) }

(* the task of the job on one request *)
DoTask(request) ==
    IF request.nil THEN [err |-> "fetch error", resp |-> ZeroResponse]
    ELSE feed[request.src]

(* as many workers as there are requests *)
WorkersPerRequest == Len(requests)

(* withWorkers(30) *)
Workers == 30

StartFetch(k) ==
    /\ pc = "fetch"
    /\ k \notin inflight
    /\ k \notin Completed
    /\ Cardinality(inflight) < Min(Workers, Len(requests))
    /\ inflight' = inflight \cup {k}
    /\ UNCHANGED <<config, Videos, pc, ctxDone, requests, order, responses, errs,
                   poolErr, loop, ret>>

CompleteFetch(k) ==
    /\ pc = "fetch"
    /\ k \in inflight
    /\ inflight' = inflight \ {k}
    /\ order' = Append(order, k)
    /\ responses' = [responses EXCEPT ![k] = DoTask(requests[k]).resp]
    /\ errs' = [errs EXCEPT ![k] = DoTask(requests[k]).err]
    /\ UNCHANGED <<config, Videos, pc, ctxDone, requests, poolErr, loop, ret>>

PoolErrorIgnored(err) == NoReturn

(* if err != nil { return nil, fmt.Errorf("%w: %v", errNoContent, err) } *)
PoolErrorResult(err) ==
    [videos |-> <<>>,
     err |-> [kind |-> "errNoContent", failed |-> 0, wraps |-> err]]

(* the pool could not run the batch: its own error, nothing submitted *)
PoolFail ==
    /\ pc = "fetch"
    /\ inflight = {}
    /\ order = <<>>
    /\ poolErr' = "pool error"
    /\ ret' = PoolErrorResult(poolErr')
    /\ pc' = "returned"
    /\ UNCHANGED <<config, Videos, ctxDone, requests, inflight, order, responses,
                   errs, loop>>

ReuseVideos(old) == old

(* videos := make(bilibiliVideoList, 0, len(RSSHubUrls)*15) *)
NewVideos(old) == <<>>

PoolReturn ==
    /\ pc = "fetch"
    /\ Completed = 1..Len(requests)
    /\ pc' = "reduce"
    /\ i' = 1
    /\ videos' = NewVideos(videos)
    /\ failed' = 0
    /\ UNCHANGED <<config, Videos, ctxDone, pool, log, ret>>

(* the ctx given to update is cancelled while fetches are in flight; neither *)
(* the requests nor the job are made with it                                 *)
Cancel ==
    /\ pc = "fetch"
    /\ inflight # {}
    /\ ~ctxDone
    /\ ctxDone' = TRUE
    /\ UNCHANGED <<config, Videos, pc, pool, loop, ret>>

(***************************************************************************)
(* fetchBilibiliChannelUploads: the loop over responses                    *)
(***************************************************************************)
PickLast(imageURLs) == imageURLs[Len(imageURLs)]

(* imageURLs[0] *)
PickImage(imageURLs) == imageURLs[1]

(* the entry of one item; no entry, a panic, when no image matched *)
Extract(v, imageProxy) ==
    LET imageURLs == FindAllStringSubmatch(v.ContentHTML)
    IN  IF Len(imageURLs) = 0
        THEN [panic |-> TRUE, video |-> [ThumbnailUrl |-> <<>>, TimePosted |-> 0]]
        ELSE [panic |-> FALSE,
              video |-> [ThumbnailUrl |-> imageProxy \o PickImage(imageURLs),
                         TimePosted |-> v.DatePublished]]

(* for j := range response.Items, up to the first panic *)
RECURSIVE ExtractAll(_, _, _)
ExtractAll(items, imageProxy, acc) ==
    IF items = <<>> THEN [panic |-> FALSE, videos |-> acc]
    ELSE LET e == Extract(Head(items), imageProxy)
         IN  IF e.panic THEN [panic |-> TRUE, videos |-> acc]
             ELSE ExtractAll(Tail(items), imageProxy, Append(acc, e.video))

(* the items of a source a filter on shorts would leave: those of BodyV go *)
ExtractItemsFiltered(items, videoUrlTemplate, includeShorts, imageProxy, acc) ==
    ExtractAll(IF includeShorts THEN items
               ELSE SelectSeq(items, LAMBDA v : v.ContentHTML # BodyV),
               imageProxy, acc)

(* the entries of the items of a source, skipping those videos holds *)
RECURSIVE ExtractItemsDedup(_, _, _, _, _)
ExtractItemsDedup(items, videoUrlTemplate, includeShorts, imageProxy, acc) ==
    IF items = <<>> THEN [panic |-> FALSE, videos |-> acc]
    ELSE LET e == Extract(Head(items), imageProxy)
         IN  IF e.panic THEN [panic |-> TRUE, videos |-> acc]
             ELSE ExtractItemsDedup(Tail(items), videoUrlTemplate, includeShorts,
                      imageProxy,
                      IF \E m \in 1..Len(acc) : acc[m] = e.video THEN acc
                      ELSE Append(acc, e.video))

(* the body of the loop on a source without error; videoUrlTemplate and    *)
(* includeShorts are parameters of fetchBilibiliChannelUploads it does not *)
(* read                                                                    *)
ExtractItems(items, videoUrlTemplate, includeShorts, imageProxy, acc) ==
    ExtractAll(items, imageProxy, acc)

LogRecordNoUrl(url, e) == [url |-> [n |-> 0, parses |-> TRUE], error |-> e]

(* slog.Error("Failed to fetch youtube feed", "rsshub url", RSSHubUrls[i], "error", errs[i]) *)
LogRecord(url, e) == [url |-> url, error |-> e]

SourceByCompletion(k, ord) == ord[k]

(* for i := range responses *)
SourceAt(k, ord) == k

SkipNothing(e) == FALSE

(* if errs[i] != nil *)
IsFailed(e) == e # Nil

(* a loop that takes the results while the pool still runs *)
ProcessSourceStreaming ==
    /\ pc \in {"fetch", "reduce"}
    /\ i <= Len(responses)
    /\ LET s == SourceAt(i, order)
       IN  IF IsFailed(errs[s])
           THEN /\ failed' = failed + 1
                /\ log' = Append(log, LogRecord(RSSHubUrls[s], errs[s]))
                /\ UNCHANGED <<videos, pc>>
           ELSE LET x == ExtractItems(responses[s].Items, VideoUrlTemplate,
                                      IncludeShorts, ImageProxy, videos)
                IN  /\ videos' = x.videos
                    /\ pc' = IF x.panic THEN "panic" ELSE pc
                    /\ UNCHANGED <<failed, log>>
    /\ i' = i + 1
    /\ UNCHANGED <<config, Videos, ctxDone, pool, ret>>

(* a loop that a failed source ends: break in the place of continue *)
ProcessSourceBreak ==
    /\ pc = "reduce"
    /\ i <= Len(responses)
    /\ LET s == SourceAt(i, order)
       IN  IF IsFailed(errs[s])
           THEN /\ failed' = failed + 1
                /\ log' = Append(log, LogRecord(RSSHubUrls[s], errs[s]))
                /\ i' = Len(responses) + 1
                /\ UNCHANGED <<videos, pc>>
           ELSE LET x == ExtractItems(responses[s].Items, VideoUrlTemplate,
                                      IncludeShorts, ImageProxy, videos)
                IN  /\ videos' = x.videos
                    /\ pc' = IF x.panic THEN "panic" ELSE pc
                    /\ i' = i + 1
                    /\ UNCHANGED <<failed, log>>
    /\ UNCHANGED <<config, Videos, ctxDone, pool, ret>>

ProcessSource ==
    /\ pc = "reduce"
    /\ i <= Len(responses)
    /\ LET s == SourceAt(i, order)
       IN  IF IsFailed(errs[s])
           THEN /\ failed' = failed + 1
                /\ log' = Append(log, LogRecord(RSSHubUrls[s], errs[s]))
                /\ UNCHANGED <<videos, pc>>
           ELSE LET x == ExtractItems(responses[s].Items, VideoUrlTemplate,
                                      IncludeShorts, ImageProxy, videos)
                IN  /\ videos' = x.videos
                    /\ pc' = IF x.panic THEN "panic" ELSE pc
                    /\ UNCHANGED <<failed, log>>
    /\ i' = i + 1
    /\ UNCHANGED <<config, Videos, ctxDone, pool, ret>>

(***************************************************************************)
(* bilibiliVideoList.sortByNewest                                          *)
(***************************************************************************)
Before(a, b) == a.TimePosted < b.TimePosted

(* v[i].TimePosted.After(v[j].TimePosted) *)
After(a, b) == a.TimePosted > b.TimePosted

Swap(v, a, b) == [v EXCEPT ![a] = v[b], ![b] = v[a]]

(* sort.Slice sorts in place; on at most 12 elements it is an insertion     *)
(* sort:                                                                   *)
(* for j := i; j > a && less(j, j-1); j-- { swap(j, j-1) }                 *)
RECURSIVE SiftDown(_, _)
SiftDown(v, j) ==
    IF j > 1 /\ After(v[j], v[j - 1]) THEN SiftDown(Swap(v, j, j - 1), j - 1)
    ELSE v

RECURSIVE InsertionSort(_, _)
InsertionSort(v, k) ==
    IF k > Len(v) THEN v ELSE InsertionSort(SiftDown(v, k), k + 1)

Unsorted(v) == v

sortByNewest(v) == InsertionSort(v, 2)

(***************************************************************************)
(* fetchBilibiliChannelUploads: the result                                 *)
(***************************************************************************)
Result(vs, nfailed) ==
    IF Len(vs) = 0
    THEN [videos |-> <<>>,
          err |-> [kind |-> "errNoContent", failed |-> 0, wraps |-> Nil]]
    ELSE IF nfailed > 0
    THEN [videos |-> sortByNewest(vs),
          err |-> [kind |-> "errPartialContent", failed |-> nfailed, wraps |-> Nil]]
    ELSE [videos |-> sortByNewest(vs), err |-> NoError]

Return ==
    /\ pc = "reduce"
    /\ i > Len(responses)
    /\ ret' = Result(videos, failed)
    /\ videos' = ret'.videos
    /\ pc' = "returned"
    /\ UNCHANGED <<config, Videos, ctxDone, pool, i, failed, log>>

(***************************************************************************)
(* bilibiliVideosWidget.update, after the fetch                            *)
(***************************************************************************)
(* widgetBase.canContinueUpdateAfterHandlingErr *)
canContinueUpdateAfterHandlingErr(err) ==
    err.kind = Nil \/ err.kind = "errPartialContent"

NoTruncate(vs, limit) == vs

(* if len(videos) > widget.Limit { videos = videos[:widget.Limit] } *)
Truncate(vs, limit) == IF Len(vs) > limit THEN SubSeq(vs, 1, limit) ELSE vs

(* an update that takes every error for fatal *)
StoreUnlessError ==
    /\ pc = "returned"
    /\ IF ret.err.kind = Nil
       THEN /\ Videos' = Truncate(ret.videos, Limit)
            /\ pc' = "stored"
       ELSE /\ UNCHANGED Videos
            /\ pc' = "stopped"
    /\ UNCHANGED <<config, ctxDone, pool, loop, ret>>

(* an update that assigns before it looks at the error *)
StoreAlways ==
    /\ pc = "returned"
    /\ Videos' = Truncate(ret.videos, Limit)
    /\ pc' = IF canContinueUpdateAfterHandlingErr(ret.err) THEN "stored" ELSE "stopped"
    /\ UNCHANGED <<config, ctxDone, pool, loop, ret>>

Store ==
    /\ pc = "returned"
    /\ IF canContinueUpdateAfterHandlingErr(ret.err)
       THEN /\ Videos' = Truncate(ret.videos, Limit)
            /\ pc' = "stored"
       ELSE /\ UNCHANGED Videos
            /\ pc' = "stopped"
    /\ UNCHANGED <<config, ctxDone, pool, loop, ret>>

(***************************************************************************)
(* The aggregation passes                                                  *)
(***************************************************************************)
Urls(n) == { u \in [1..n -> [n : 1..n, parses : BOOLEAN]] : \A k \in 1..n : u[k].n = k }

Init ==
    /\ Limit \in 0..MaxLimit
    /\ ImageProxy \in {<<>>, <<"/">>}
    /\ \E n \in 0..MaxSources :
         /\ RSSHubUrls \in Urls(n)
         /\ feed \in [1..n -> Answers]
         /\ \A k \in 1..n : ~RSSHubUrls[k].parses => feed[k] = NoAnswer
    /\ Videos = <<>>
    /\ pc = "new"
    /\ ctxDone = FALSE
    /\ requests = <<>>
    /\ inflight = {}
    /\ order = <<>>
    /\ responses = <<>>
    /\ errs = <<>>
    /\ i = 1
    /\ videos = <<>>
    /\ failed = 0
    /\ log = <<>>
    /\ ret = NoReturn
    /\ poolErr = Nil
    /\ VideoUrlTemplate = <<>>
    /\ IncludeShorts = FALSE
    /\ last = NoPass

Next ==
    \/ initialize
    \/ MakeRequests
    \/ \E k \in 1..Len(requests) : StartFetch(k)
    \/ \E k \in 1..Len(requests) : CompleteFetch(k)
    \/ PoolFail
    \/ PoolReturn
    \/ Cancel
    \/ ProcessSource
    \/ Return
    \/ Store

Spec == Init /\ [][Next]_vars

(***************************************************************************)
(* update is called again, on the widget as the pass before left it: the   *)
(* sources answer as before, or none of them answers any more              *)
(***************************************************************************)
Rerun ==
    /\ pc \in {"stored", "stopped"}
    /\ last.pass < MaxPasses - 1
    /\ last' = [pass |-> last.pass + 1, feed |-> feed, ret |-> ret, Videos |-> Videos]
    /\ feed' \in {feed, [k \in 1..Len(RSSHubUrls) |-> NoAnswer]}
    /\ pc' = "build"
    /\ ctxDone' = FALSE
    /\ requests' = <<>>
    /\ inflight' = {}
    /\ order' = <<>>
    /\ responses' = <<>>
    /\ errs' = <<>>
    /\ poolErr' = Nil
    /\ log' = <<>>
    /\ ret' = NoReturn
    /\ UNCHANGED <<Limit, ImageProxy, RSSHubUrls, VideoUrlTemplate, IncludeShorts,
                   Videos, i, videos, failed>>

NextPasses ==
    \/ Next
    \/ Rerun

SpecPasses == Init /\ [][NextPasses]_vars

(***************************************************************************)
(* What the properties speak of                                            *)
(***************************************************************************)
NumSources == Len(RSSHubUrls)

(* the sources whose error slot is set once the batch has run *)
FailedSources ==
    { k \in 1..NumSources : ~RSSHubUrls[k].parses \/ feed[k].err # Nil }

SucceedingSources == (1..NumSources) \ FailedSources

(* the items of the succeeding sources from source k on, in source order *)
RECURSIVE SucceedingItemsFrom(_)
SucceedingItemsFrom(k) ==
    IF k > NumSources THEN <<>>
    ELSE (IF k \in FailedSources THEN <<>> ELSE feed[k].resp.Items)
         \o SucceedingItemsFrom(k + 1)

SucceedingItems == SucceedingItemsFrom(1)

HasNoImage(item) == item.ContentHTML = BodyText

(* the entry an item of the passes stands for *)
EntryOf(item) ==
    [ThumbnailUrl |-> ImageProxy \o (IF item.ContentHTML = BodyV THEN UrlV ELSE UrlU),
     TimePosted |-> item.DatePublished]

Count(seq, x) == Cardinality({ j \in 1..Len(seq) : seq[j] = x })

(* vs holds the entry of every item of items, as often, and nothing else *)
ExactlyTheItems(vs, items) ==
    /\ Len(vs) = Len(items)
    /\ \A j \in 1..Len(items) :
         Count(vs, EntryOf(items[j]))
           = Cardinality({ m \in 1..Len(items) : EntryOf(items[m]) = EntryOf(items[j]) })

SortedByNewest(vs) ==
    \A j \in 1..(Len(vs) - 1) : vs[j].TimePosted >= vs[j + 1].TimePosted

CallReturned == pc \in {"returned", "stored", "stopped"}

(* the call has ended: it returned, or it panicked *)
CallEnded == CallReturned \/ pc = "panic"

(* the batch ran: workerPoolDo returned no error of its own *)
BatchRan == CallEnded /\ ret.err.wraps = Nil

(***************************************************************************)
(* C1: when exactly k >= 1 sources have their error slot set and the other *)
(* sources yield at least one item in total, the call returns the          *)
(* partial-content error with failed count k, and a sequence that holds    *)
(* exactly the items of the succeeding sources.                            *)
(***************************************************************************)
PartialContentCase ==
    /\ BatchRan
    /\ FailedSources # {}
    /\ Len(SucceedingItems) >= 1

C1_PartialContent ==
    PartialContentCase =>
        /\ pc # "panic"
        /\ ret.err.kind = "errPartialContent"
        /\ ret.err.failed = Cardinality(FailedSources)
        /\ ExactlyTheItems(ret.videos, SucceedingItems)

(* the same, for passes in which every item of the succeeding sources has  *)
(* an image                                                                *)
PartialContentOfImages ==
    (PartialContentCase /\ \A j \in 1..Len(SucceedingItems) : ~HasNoImage(SucceedingItems[j]))
        => /\ pc # "panic"
           /\ ret.err.kind = "errPartialContent"
           /\ ret.err.failed = Cardinality(FailedSources)
           /\ ExactlyTheItems(ret.videos, SucceedingItems)

(***************************************************************************)
(* C2: when every source fails or yields no item (any mix of the two, and  *)
(* the empty source list), the call returns the no-content error and an    *)
(* empty sequence, whatever the failed count.                              *)
(***************************************************************************)
NoContentCase ==
    \A k \in 1..NumSources : k \in FailedSources \/ feed[k].resp.Items = <<>>

C2_NoContent ==
    (CallEnded /\ NoContentCase) =>
        /\ pc # "panic"
        /\ ret.err.kind = "errNoContent"
        /\ ret.videos = <<>>

(* a pass of a failed source, whose payload was decoded in part, and of a  *)
(* source without items has run to its end                                 *)
C2_Witness ==
    /\ pc = "stopped"
    /\ BatchRan
    /\ NoContentCase
    /\ \E k \in FailedSources : feed[k].resp.Items # <<>>
    /\ \E k \in SucceedingSources : feed[k].resp.Items = <<>>
    /\ failed = 1

(***************************************************************************)
(* C3: for a non-empty source list of which every fetch succeeds and every *)
(* source yields at least one item, the call returns no error and a        *)
(* sequence whose publish timestamps do not increase.                      *)
(***************************************************************************)
SuccessCase ==
    /\ BatchRan
    /\ NumSources >= 1
    /\ FailedSources = {}
    /\ \A k \in 1..NumSources : Len(feed[k].resp.Items) >= 1

C3_Success ==
    SuccessCase =>
        /\ pc # "panic"
        /\ ret.err = NoError
        /\ ret.videos # <<>>
        /\ SortedByNewest(ret.videos)

(* the same, for passes in which every item has an image *)
SuccessOfImages ==
    (SuccessCase /\ \A j \in 1..Len(SucceedingItems) : ~HasNoImage(SucceedingItems[j]))
        => /\ pc # "panic"
           /\ ret.err = NoError
           /\ ret.videos # <<>>
           /\ SortedByNewest(ret.videos)

(***************************************************************************)
(* C4: an item of a fetched source whose body has no image is handled: the *)
(* call never reaches a fatal, out-of-bounds state on it and still returns.*)
(***************************************************************************)
C4_NoImageHandled == pc # "panic"

(***************************************************************************)
(* C5: every non-empty sequence the call returns is sorted by publish      *)
(* timestamp, newest first, with and without the partial-content error.    *)
(***************************************************************************)
C5_ReturnedSorted ==
    (CallReturned /\ ret.videos # <<>>) => SortedByNewest(ret.videos)

(* a partial-content return of entries that were merged out of order *)
C5_Witness ==
    /\ pc = "returned"
    /\ ret.err.kind = "errPartialContent"
    /\ Len(ret.videos) >= 2
    /\ ~SortedByNewest([j \in 1..Len(SucceedingItems) |-> EntryOf(SucceedingItems[j])])

(***************************************************************************)
(* C6: for the same source list and the same outcome of every source, the  *)
(* sequence, the failed count and the outcome of the call are the same     *)
(* under every completion order of the fetches: they are what the sources, *)
(* taken by index, give.                                                   *)
(***************************************************************************)
RECURSIVE ByIndex(_, _)
ByIndex(k, acc) ==
    IF k > NumSources \/ acc.panic THEN acc
    ELSE IF k \in FailedSources
    THEN ByIndex(k + 1,
                 [acc EXCEPT !.failed = @ + 1,
                             !.log = Append(@, [url |-> RSSHubUrls[k],
                                                error |-> "fetch error"])])
    ELSE LET x == ExtractAll(feed[k].resp.Items, ImageProxy, acc.videos)
         IN  ByIndex(k + 1, [acc EXCEPT !.videos = x.videos, !.panic = x.panic])

Expected == ByIndex(1, [panic |-> FALSE, videos |-> <<>>, failed |-> 0, log |-> <<>>])

C6_CompletionOrderFree ==
    BatchRan =>
        /\ (pc = "panic") = Expected.panic
        /\ log = Expected.log
        /\ failed = Expected.failed
        /\ pc = "panic" => videos = Expected.videos
        /\ CallReturned => ret = Result(Expected.videos, Expected.failed)

(* the second source completed first, and the two sources hold different   *)
(* items of the same timestamp                                             *)
C6_Witness ==
    /\ pc = "returned"
    /\ order = <<2, 1>>
    /\ FailedSources = {}
    /\ Len(ret.videos) >= 2
    /\ \E a \in 1..Len(feed[1].resp.Items), b \in 1..Len(feed[2].resp.Items) :
         /\ feed[1].resp.Items[a].DatePublished = feed[2].resp.Items[b].DatePublished
         /\ feed[1].resp.Items[a] # feed[2].resp.Items[b]

(***************************************************************************)
(* C7: when the ctx given to update is cancelled while fetches are in      *)
(* flight, the fetches are aborted and the call returns an error that      *)
(* reflects the cancellation.                                              *)
(***************************************************************************)
C7_CancelReturnsError ==
    (ctxDone /\ CallReturned) =>
        /\ ret.err.kind # Nil
        /\ ret.err.wraps = "context canceled"

(***************************************************************************)
(* C8: a malformed source URL passes the request builder and surfaces as   *)
(* the fetch error of its source: one descriptor per URL at the same       *)
(* index, the error slot of the malformed source set and counted as one    *)
(* failed source, the sibling sources fetched and processed.               *)
(***************************************************************************)
C8_MalformedUrl ==
    /\ pc \notin {"new", "build"} =>
         /\ Len(requests) = NumSources
         /\ \A k \in 1..NumSources :
              /\ requests[k].nil = ~RSSHubUrls[k].parses
              /\ ~requests[k].nil => requests[k].src = k
    /\ (BatchRan \/ pc = "reduce") =>
         /\ Len(errs) = NumSources
         /\ \A k \in 1..NumSources :
              IF RSSHubUrls[k].parses
              THEN errs[k] = feed[k].err /\ responses[k] = feed[k].resp
              ELSE errs[k] # Nil
    /\ (BatchRan /\ CallReturned) =>
         /\ failed = Cardinality(FailedSources)
         /\ \A k \in 1..NumSources : ~RSSHubUrls[k].parses =>
              \E m \in 1..Len(log) : log[m].url = RSSHubUrls[k]
         /\ Len(videos) = Len(SucceedingItems)

(* a pass of a malformed URL and of a sibling with items has returned *)
C8_Witness ==
    /\ pc = "returned"
    /\ \E k \in 1..NumSources : ~RSSHubUrls[k].parses
    /\ \E k \in SucceedingSources : feed[k].resp.Items # <<>>
    /\ ret.err.kind = "errPartialContent"
    /\ ret.err.failed = 1
    /\ Len(ret.videos) >= 1

(***************************************************************************)
(* C10: the call does not truncate, it returns every merged entry; update  *)
(* applies the cap: after an update that stores a result, widget.Videos    *)
(* has at most widget.Limit entries, the first min(Limit, n) entries of    *)
(* the sorted merged sequence, the newest ones.                            *)
(***************************************************************************)
C10_CapByUpdate ==
    /\ (CallReturned /\ ret.videos # <<>>) =>
         /\ Len(ret.videos) = Len(SucceedingItems)
         /\ ExactlyTheItems(ret.videos, SucceedingItems)
    /\ pc = "stored" =>
         /\ Len(Videos) <= Limit
         /\ Len(Videos) = Min(Limit, Len(ret.videos))
         /\ \A j \in 1..Len(Videos) : Videos[j] = ret.videos[j]
         /\ \A j \in 1..Len(Videos) : \A m \in (Len(Videos) + 1)..Len(ret.videos) :
              Videos[j].TimePosted >= ret.videos[m].TimePosted

(* an update has stored fewer entries than the call returned *)
C10_Witness ==
    /\ pc = "stored"
    /\ Len(ret.videos) > Limit
    /\ Len(Videos) = Limit

(***************************************************************************)
(* The passes of one source of one item, over the item bodies              *)
(***************************************************************************)
InitExtract ==
    /\ Limit = 0
    /\ ImageProxy \in {<<>>, <<"/">>}
    /\ RSSHubUrls = <<[n |-> 1, parses |-> TRUE]>>
    /\ \E tags \in TagSeqs :
         feed = <<[err |-> Nil,
                   resp |-> [Items |-> <<[ContentHTML |-> BodyHtml(tags),
                                          DatePublished |-> 1]>>]]>>
    /\ Videos = <<>>
    /\ pc = "new"
    /\ ctxDone = FALSE
    /\ requests = <<>>
    /\ inflight = {}
    /\ order = <<>>
    /\ responses = <<>>
    /\ errs = <<>>
    /\ i = 1
    /\ videos = <<>>
    /\ failed = 0
    /\ log = <<>>
    /\ ret = NoReturn
    /\ poolErr = Nil
    /\ VideoUrlTemplate = <<>>
    /\ IncludeShorts = FALSE
    /\ last = NoPass

SpecExtract == InitExtract /\ [][Next]_vars

(* the tags the body of the item is made of *)
TagsOfItem ==
    CHOOSE tags \in TagSeqs : BodyHtml(tags) = feed[1].resp.Items[1].ContentHTML

(* the item has been processed and has an entry *)
ItemHasEntry == BatchRan /\ Len(videos) = 1

FirstOf(tags, P(_)) ==
    tags[CHOOSE j \in 1..Len(tags) : P(tags[j]) /\ \A m \in 1..(j - 1) : ~P(tags[m])]

(* an image tag with a src attribute *)
IsImgWithSrc(tag) == tag.kind \in {"dq", "sq", "lazy", "upper"}

(* an image tag the pattern matches: <img in lower case and a src=" value  *)
(* in double quotes; what it captures is the value of the last src=" of    *)
(* the tag                                                                 *)
IsMatched(tag) == tag.kind \in {"dq", "lazy"}
Captured(tag) == IF tag.kind = "lazy" THEN <<"z">> ELSE tag.src

(***************************************************************************)
(* C9: for every item whose body has one or more image tags with a src     *)
(* attribute, the thumbnail of its entry is the image-proxy prefix         *)
(* followed by the src of the first such tag; later image tags do not      *)
(* change it.                                                              *)
(***************************************************************************)
C9_FirstImgWithSrc ==
    (ItemHasEntry /\ \E j \in 1..Len(TagsOfItem) : IsImgWithSrc(TagsOfItem[j])) =>
        videos[1].ThumbnailUrl = ImageProxy \o FirstOf(TagsOfItem, IsImgWithSrc).src

(***************************************************************************)
(* C9, as amended: for every item whose body has one or more matches of    *)
(* the pattern <img[^>]+src="([^"]+)", the item has an entry whose         *)
(* thumbnail is the image-proxy prefix followed by what the first match in *)
(* document order captures; later matches do not change it.                *)
(***************************************************************************)
C9_FirstMatch ==
    (BatchRan /\ \E j \in 1..Len(TagsOfItem) : IsMatched(TagsOfItem[j])) =>
        /\ pc # "panic"
        /\ Len(videos) = 1
        /\ videos[1].ThumbnailUrl = ImageProxy \o Captured(FirstOf(TagsOfItem, IsMatched))

(* the entry of an item of two matched tags of two different URLs, under a *)
(* prefix of the configuration                                             *)
C9_Witness ==
    /\ ItemHasEntry
    /\ ImageProxy = <<"/">>
    /\ Len(TagsOfItem) = 2
    /\ IsMatched(TagsOfItem[1])
    /\ IsMatched(TagsOfItem[2])
    /\ Captured(TagsOfItem[1]) # Captured(TagsOfItem[2])

(***************************************************************************)
(* C11: the partial-content error is not fatal to update: when the call    *)
(* returns a non-empty sequence with it, update stores the entries, cut to *)
(* Limit, in widget.Videos.                                                *)
(***************************************************************************)
C11_PartialIsStored ==
    (pc \in {"stored", "stopped"} /\ ret.err.kind = "errPartialContent") =>
        /\ pc = "stored"
        /\ Videos # <<>>
        /\ Len(Videos) = Min(Limit, Len(ret.videos))
        /\ \A j \in 1..Len(Videos) : Videos[j] = ret.videos[j]

(* update has stored, cut to Limit, the entries of a partial-content return *)
C11_Witness ==
    /\ pc = "stored"
    /\ ret.err.kind = "errPartialContent"
    /\ ret.err.failed = 1
    /\ Len(ret.videos) = 2
    /\ Len(Videos) = 1

(***************************************************************************)
(* C12: a second pass over the same sources with the same answers returns  *)
(* the same sequence of entries, entries of equal timestamps in the same   *)
(* order, and the same outcome as the first.                               *)
(***************************************************************************)
SamePassAgain ==
    /\ last.pass >= 1
    /\ last.feed = feed
    /\ last.ret.err.wraps = Nil
    /\ poolErr = Nil

C12_SameAgain ==
    SamePassAgain =>
        /\ pc # "panic"
        /\ CallReturned => ret = last.ret

(* the second pass has returned anew two different entries of one          *)
(* timestamp, its fetches completed in the reverse order                   *)
C12_Witness ==
    /\ SamePassAgain
    /\ pc = "returned"
    /\ order = <<2, 1>>
    /\ Len(ret.videos) >= 2
    /\ \E a, b \in 1..Len(ret.videos) :
         /\ ret.videos[a].TimePosted = ret.videos[b].TimePosted
         /\ ret.videos[a] # ret.videos[b]

(***************************************************************************)
(* C20: a pass that ends in an outcome after which the widget cannot go on *)
(* (the no-content error) leaves widget.Videos as it was: what an earlier  *)
(* pass stored stays, nothing of the failed pass is stored.                *)
(***************************************************************************)
C20_StoppedKeepsVideos ==
    pc = "stopped" =>
        /\ ~canContinueUpdateAfterHandlingErr(ret.err)
        /\ Videos = last.Videos

(* the pass after one that stored entries has ended without content *)
C20_Witness ==
    /\ pc = "stopped"
    /\ last.pass = 1
    /\ last.ret.videos # <<>>
    /\ Videos # <<>>
    /\ ret.err.kind = "errNoContent"
    /\ ret.videos = <<>>

(***************************************************************************)
(* The passes of more sources than the pool has workers. The sources all   *)
(* answer alike, without items, and the tasks are interchangeable for the  *)
(* number in flight: the pool starts the waiting task of the lowest index  *)
(* and the running task of the lowest index completes.                     *)
(***************************************************************************)
InitPool ==
    /\ Limit = 0
    /\ ImageProxy = <<>>
    /\ \E n \in {MaxPoolSources - 1, MaxPoolSources} :
         /\ RSSHubUrls = [k \in 1..n |-> [n |-> k, parses |-> TRUE]]
         /\ \E a \in {NoAnswer, [err |-> Nil, resp |-> ZeroResponse]} :
              feed = [k \in 1..n |-> a]
    /\ Videos = <<>>
    /\ pc = "new"
    /\ ctxDone = FALSE
    /\ requests = <<>>
    /\ inflight = {}
    /\ order = <<>>
    /\ responses = <<>>
    /\ errs = <<>>
    /\ i = 1
    /\ videos = <<>>
    /\ failed = 0
    /\ log = <<>>
    /\ ret = NoReturn
    /\ poolErr = Nil
    /\ VideoUrlTemplate = <<>>
    /\ IncludeShorts = FALSE
    /\ last = NoPass

Waiting == (1..Len(requests)) \ (inflight \cup Completed)

Lowest(S) == CHOOSE x \in S : \A y \in S : x <= y

NextPool ==
    \/ initialize
    \/ MakeRequests
    \/ \E k \in 1..Len(requests) : k = Lowest(Waiting \cup {k}) /\ StartFetch(k)
    \/ \E k \in 1..Len(requests) : k = Lowest(inflight \cup {k}) /\ CompleteFetch(k)
    \/ PoolFail
    \/ PoolReturn
    \/ Cancel
    \/ ProcessSource
    \/ Return
    \/ Store

SpecPool == InitPool /\ [][NextPool]_vars

(***************************************************************************)
(* C13: at every moment of a pass at most 30 fetches are in flight,        *)
(* whatever the number of sources, more than 30 included.                  *)
(***************************************************************************)
C13_AtMost30InFlight == Cardinality(inflight) <= 30

(* 30 fetches are in flight, one has completed and a source still waits *)
C13_Witness ==
    /\ pc = "fetch"
    /\ Len(requests) > 30
    /\ Cardinality(inflight) = 30
    /\ Len(order) >= 1
    /\ Waiting # {}

(***************************************************************************)
(* C14: the batch call is a barrier: the loop reads no slot and appends no *)
(* entry before all the fetches have completed; extraction, merge, sort    *)
(* and classification come after the pool call returned.                   *)
(***************************************************************************)
C14_Barrier ==
    /\ pc \in {"new", "build", "fetch"} =>
         /\ i = 1
         /\ videos = <<>>
         /\ failed = 0
         /\ log = <<>>
         /\ ret = NoReturn
    /\ (pc \in {"reduce", "panic"} \/ (CallReturned /\ poolErr = Nil)) =>
         /\ inflight = {}
         /\ Completed = 1..Len(requests)

(* one source has answered with items, another is still in flight, and     *)
(* nothing has been taken                                                  *)
C14_Witness ==
    /\ pc = "fetch"
    /\ Len(order) = 1
    /\ inflight # {}
    /\ errs[order[1]] = Nil
    /\ responses[order[1]].Items # <<>>
    /\ videos = <<>>
    /\ i = 1

(***************************************************************************)
(* C15: the error of one source is kept in the error slot of that source   *)
(* and aborts no sibling: every other source is fetched to its end, and    *)
(* every sibling that succeeds gives its items to the merged result.       *)
(***************************************************************************)
C15_ErrorInItsSlot ==
    /\ pc \notin {"new", "build"} =>
         \A k \in 1..Len(requests) :
             IF k \in Completed
             THEN /\ errs[k] = DoTask(requests[k]).err
                  /\ responses[k] = DoTask(requests[k]).resp
             ELSE /\ errs[k] = Nil
                  /\ responses[k] = ZeroResponse
    /\ (pc = "reduce" /\ FailedSources # {}) => Completed = 1..NumSources
    /\ (CallReturned /\ poolErr = Nil) =>
         /\ Len(log) = Cardinality(FailedSources)
         /\ ExactlyTheItems(ret.videos, SucceedingItems)

(* the first source failed first; its sibling was fetched after it and its *)
(* items were returned                                                     *)
C15_Witness ==
    /\ pc = "returned"
    /\ order = <<1, 2>>
    /\ errs[1] # Nil
    /\ errs[2] = Nil
    /\ ret.err.kind = "errPartialContent"
    /\ Len(ret.videos) = Len(feed[2].resp.Items)

(***************************************************************************)
(* C16: a source gives all of its items or none: none when its error slot  *)
(* is set, one entry for each raw item otherwise; the number of returned   *)
(* entries is the sum of the raw item counts of the successful sources,    *)
(* duplicates across sources kept.                                         *)
(***************************************************************************)
C16_AllOrNone ==
    /\ pc = "reduce" =>
         Len(videos) + Len(SucceedingItemsFrom(i)) = Len(SucceedingItems)
    /\ (CallReturned /\ poolErr = Nil) =>
         /\ Len(ret.videos) = Len(SucceedingItems)
         /\ \A k \in FailedSources : Len(ret.videos) + Len(feed[k].resp.Items)
                                       >= Len(SucceedingItems)

(* two sources have given the same items, and all of them were returned *)
C16_Witness ==
    /\ pc = "returned"
    /\ NumSources = 2
    /\ FailedSources = {}
    /\ feed[1].resp.Items # <<>>
    /\ feed[1].resp.Items = feed[2].resp.Items
    /\ Len(ret.videos) = 2 * Len(feed[1].resp.Items)

(***************************************************************************)
(* C17: a pass gives one diagnostic for each failed source, with the URL   *)
(* and the error of the source, in ascending order of the source index     *)
(* under every completion order, as many as the failed count of the        *)
(* outcome.                                                                *)
(***************************************************************************)
RECURSIVE FailedFrom(_)
FailedFrom(k) ==
    IF k > NumSources THEN <<>>
    ELSE (IF k \in FailedSources THEN <<k>> ELSE <<>>) \o FailedFrom(k + 1)

C17_Diagnostics ==
    (CallReturned /\ poolErr = Nil) =>
        /\ Len(log) = Len(FailedFrom(1))
        /\ \A m \in 1..Len(log) :
             /\ log[m].url = RSSHubUrls[FailedFrom(1)[m]]
             /\ log[m].error = errs[FailedFrom(1)[m]]
             /\ log[m].error # Nil
        /\ failed = Len(log)
        /\ ret.err.kind = "errPartialContent" => ret.err.failed = Len(log)

(* two failed sources, the second completed first *)
C17_Witness ==
    /\ CallReturned
    /\ order = <<2, 1>>
    /\ FailedSources = {1, 2}
    /\ Len(log) = 2
    /\ log[1].url.n = 1

(***************************************************************************)
(* C18: when the pool returns an error of its own, the call returns no     *)
(* collection and the no-content error that wraps the error of the pool;   *)
(* it reads no slot, gives no diagnostic and does not report partial       *)
(* content.                                                                *)
(***************************************************************************)
C18_PoolError ==
    (CallReturned /\ poolErr # Nil) =>
        /\ ret.videos = <<>>
        /\ ret.err.kind = "errNoContent"
        /\ ret.err.wraps = poolErr
        /\ i = 1
        /\ videos = <<>>
        /\ failed = 0
        /\ log = <<>>

(* the pool has failed on sources of which one fails and one has items *)
C18_Witness ==
    /\ pc = "returned"
    /\ poolErr # Nil
    /\ FailedSources # {}
    /\ Len(SucceedingItems) >= 1

(***************************************************************************)
(* The passes over the two flags                                           *)
(***************************************************************************)
InitFlags ==
    /\ Limit = 0
    /\ ImageProxy = <<>>
    /\ \E n \in 0..MaxSources :
         /\ RSSHubUrls \in Urls(n)
         /\ feed \in [1..n -> Answers]
         /\ \A k \in 1..n : ~RSSHubUrls[k].parses => feed[k] = NoAnswer
    /\ Videos = <<>>
    /\ pc = "new"
    /\ ctxDone = FALSE
    /\ requests = <<>>
    /\ inflight = {}
    /\ order = <<>>
    /\ responses = <<>>
    /\ errs = <<>>
    /\ i = 1
    /\ videos = <<>>
    /\ failed = 0
    /\ log = <<>>
    /\ ret = NoReturn
    /\ poolErr = Nil
    /\ VideoUrlTemplate \in {<<>>, <<"t">>}
    /\ IncludeShorts \in BOOLEAN
    /\ last = NoPass

SpecFlags == InitFlags /\ [][Next]_vars

(***************************************************************************)
(* C19: what the call returns does not depend on includeShorts nor on      *)
(* videoUrlTemplate: it is what the sources and their answers give, and no *)
(* item is filtered.                                                       *)
(***************************************************************************)
C19_FlagsUnread ==
    /\ (CallReturned /\ poolErr = Nil) =>
         ret = Result([j \in 1..Len(SucceedingItems) |-> EntryOf(SucceedingItems[j])],
                      Cardinality(FailedSources))
    /\ pc = "panic" => \E j \in 1..Len(SucceedingItems) : HasNoImage(SucceedingItems[j])

(* a pass that does not include shorts has returned an entry of BodyV *)
C19_Witness ==
    /\ pc = "returned"
    /\ ~IncludeShorts
    /\ VideoUrlTemplate # <<>>
    /\ \E j \in 1..Len(ret.videos) : ret.videos[j].ThumbnailUrl = ImageProxy \o UrlV

=============================================================================
